---- MODULE Spec2Model ----
(***************************************************************************)
(* Chunked-inference orchestration of app/nlp.py and the HTTP handlers of  *)
(* app/main.py.  A text is a sequence of one-character strings.            *)
(*                                                                         *)
(* split_text_into_chunks is textwrap.wrap with its defaults               *)
(* (break_long_words, break_on_hyphens, drop_whitespace, replace_whitespace *)
(* all on, max_lines None); wrap is modelled as CPython 3.11 computes it:  *)
(* _munge_whitespace, the wordsep_re chunking, _wrap_chunks and            *)
(* _handle_long_word.  Texts are drawn over a letter, the hyphen, the      *)
(* space and the newline; tabs (expand_tabs) are outside the alphabet.     *)
(*                                                                         *)
(* Spec serves one request: a handler of main.py or a direct call of       *)
(* translate_text.  Every pipeline call is two steps, the invocation and   *)
(* its return or exception.  ChunkSpec applies split_text_into_chunks to   *)
(* any text and any max_chars > 0 within the bounds.                       *)
(***************************************************************************)
EXTENDS Integers, Sequences, FiniteSets, TLC

\* ----------------------------------------------------------------- bounds
MaxLen == 6          \* longest text drawn for split_text_into_chunks
MaxWidth == 5        \* largest max_chars drawn for split_text_into_chunks

\* ------------------------------------------------------------- characters
SP == " "
NL == "\n"
HY == "-"
Alphabet == {"a", HY, SP, NL}

\* textwrap._whitespace, restricted to the alphabet
WrapWhitespace == {SP, NL}
\* the characters str.strip() removes, restricted to the alphabet
StripWhitespace == {SP, NL}
\* [^\d\W] and \w of textwrap.wordsep_re, restricted to the alphabet
IsLetter(c) == c = "a"
IsWordChar(c) == c = "a"
\* word_punct = [\w!"'&.,?]
IsWordPunct(c) == c \in {"a", "."}

\* s[k], or the empty string outside the text
At(s, k) == IF k >= 1 /\ k <= Len(s) THEN s[k] ELSE ""

\* a slice that loses its last character
SliceShort(s, i, j) == SubSeq(s, i, j - 1)

\* s[i:j] of Python for 1-based inclusive bounds
Slice(s, i, j) == SubSeq(s, i, j)

RECURSIVE Concat(_)
\* ''.join(list)
Concat(ss) == IF ss = <<>> THEN <<>> ELSE Head(ss) \o Concat(Tail(ss))

RECURSIVE JoinSpace(_)
\* " ".join(list)
JoinSpace(ss) ==
  IF ss = <<>> THEN <<>>
  ELSE IF Len(ss) = 1 THEN ss[1]
  ELSE ss[1] \o <<SP>> \o JoinSpace(Tail(ss))

\* a strip that was left out
StripOmitted(s) == s

\* str.strip()
strip(s) ==
  IF \A k \in 1..Len(s) : s[k] \in StripWhitespace THEN <<>>
  ELSE LET lo == CHOOSE k \in 1..Len(s) :
                   s[k] \notin StripWhitespace
                   /\ \A m \in 1..(k - 1) : s[m] \in StripWhitespace
           hi == CHOOSE k \in 1..Len(s) :
                   s[k] \notin StripWhitespace
                   /\ \A m \in (k + 1)..Len(s) : s[m] \in StripWhitespace
       IN SubSeq(s, lo, hi)

\* text.replace("\n", " ")
ReplaceNewlines(s) == [k \in 1..Len(s) |-> IF s[k] = NL THEN SP ELSE s[k]]

\* TextWrapper._munge_whitespace: every whitespace character becomes a space
MungeWhitespace(s) ==
  [k \in 1..Len(s) |-> IF s[k] \in WrapWhitespace THEN SP ELSE s[k]]

\* a blank test that skips the first character
IsBlankFromSecond(c) == \A k \in 2..Len(c) : c[k] = SP

\* chunk.strip() == ''
IsBlank(c) == \A k \in 1..Len(c) : c[k] = SP

\* ------------------------------------------------- TextWrapper.wordsep_re
\* first index >= j that does not hold ch (Len(s)+1 when the run reaches the end)
RunEnd(s, j, ch) ==
  CHOOSE e \in j..(Len(s) + 1) :
    /\ At(s, e) # ch
    /\ \A k \in j..(e - 1) : s[k] = ch

\* -{2,}(?=\w) matches at j
EmDashAt(s, j) ==
  /\ At(s, j) = HY
  /\ At(s, j + 1) = HY
  /\ IsWordChar(At(s, RunEnd(s, j, HY)))

\* the hyphenated-word alternative, with the hyphen at j
HyphenBreakAt(s, j) ==
  /\ At(s, j) = HY
  /\ \/ IsLetter(At(s, j - 2)) /\ IsLetter(At(s, j - 1))
     \/ IsLetter(At(s, j - 3)) /\ At(s, j - 2) = HY /\ IsLetter(At(s, j - 1))
  /\ IsLetter(At(s, j + 1))
  /\ \/ IsLetter(At(s, j + 2))
     \/ At(s, j + 2) = HY /\ IsLetter(At(s, j + 3))

\* the end-of-word alternative: whitespace or the end of the text at j
WordEndAt(s, j) == j = Len(s) + 1 \/ At(s, j) = SP

\* the em-dash alternative: a word ends before an em-dash at j
BeforeEmDashAt(s, j) == IsWordPunct(At(s, j - 1)) /\ EmDashAt(s, j)

\* last index of the chunk wordsep_re matches at i
ChunkEnd(s, i) ==
  IF s[i] = SP THEN RunEnd(s, i, SP) - 1
  ELSE IF IsWordPunct(At(s, i - 1)) /\ EmDashAt(s, i) THEN RunEnd(s, i, HY) - 1
  ELSE LET stop(j) == HyphenBreakAt(s, j) \/ WordEndAt(s, j) \/ BeforeEmDashAt(s, j)
           j == CHOOSE x \in (i + 1)..(Len(s) + 1) :
                  stop(x) /\ \A y \in (i + 1)..(x - 1) : ~stop(y)
       IN IF HyphenBreakAt(s, j) THEN j ELSE j - 1

RECURSIVE SplitFrom(_, _)
SplitFrom(s, i) ==
  IF i > Len(s) THEN <<>>
  ELSE LET e == ChunkEnd(s, i)
       IN <<Slice(s, i, e)>> \o SplitFrom(s, e + 1)

\* TextWrapper._split (break_on_hyphens is True)
SplitChunks(s) == SplitFrom(MungeWhitespace(s), 1)

\* break_long_words off: the long chunk goes on the line whole
LongWordKeptWhole(chunk, cur_len, width) == Len(chunk)

\* ------------------------------------------- TextWrapper._handle_long_word
\* number of characters of chunk put on the current line
LongWordCut(chunk, cur_len, width) ==
  LET space_left == IF width < 1 THEN 1 ELSE width - cur_len
      hyphens == {h \in 1..space_left : At(chunk, h) = HY}
      hyphen == IF hyphens = {} THEN 0
                ELSE CHOOSE h \in hyphens : \A g \in hyphens : h >= g
  IN IF Len(chunk) > space_left
        /\ hyphen > 1
        /\ \E k \in 1..(hyphen - 1) : chunk[k] # HY
     THEN hyphen
     ELSE space_left

\* --------------------------------------------- TextWrapper._wrap_chunks
RECURSIVE SumLen(_)
SumLen(cs) == IF cs = <<>> THEN 0 ELSE Len(Head(cs)) + SumLen(Tail(cs))

\* how many leading chunks fit on a line of the given width
FitCount(cs, width) ==
  CHOOSE n \in 0..Len(cs) :
    /\ SumLen(SubSeq(cs, 1, n)) <= width
    /\ n < Len(cs) => SumLen(SubSeq(cs, 1, n + 1)) > width

RECURSIVE WrapChunks(_, _, _)
WrapChunks(chunks, lines, width) ==
  IF chunks = <<>> THEN lines
  ELSE
    LET c0 == IF IsBlank(chunks[1]) /\ lines # <<>> THEN Tail(chunks) ELSE chunks
        n == FitCount(c0, width)
        fit == SubSeq(c0, 1, n)
        rest == SubSeq(c0, n + 1, Len(c0))
        long == rest # <<>> /\ Len(rest[1]) > width
        cut == IF long THEN LongWordCut(rest[1], SumLen(fit), width) ELSE 0
        cur_line == IF long THEN Append(fit, SubSeq(rest[1], 1, cut)) ELSE fit
        rest2 == IF long
                 THEN <<SubSeq(rest[1], cut + 1, Len(rest[1]))>> \o Tail(rest)
                 ELSE rest
        kept == IF cur_line # <<>> /\ IsBlank(cur_line[Len(cur_line)])
                THEN SubSeq(cur_line, 1, Len(cur_line) - 1)
                ELSE cur_line
        lines2 == IF kept # <<>> THEN Append(lines, Concat(kept)) ELSE lines
    IN WrapChunks(rest2, lines2, width)

\* textwrap.wrap(text, width) for width > 0
wrap(text, width) == WrapChunks(SplitChunks(text), <<>>, width)

\* split_text_into_chunks(text, max_chars)
split_text_into_chunks(text, max_chars) == wrap(ReplaceNewlines(text), max_chars)

\* ------------------------------------------------------ program constants
SummarizeChunkChars == 1024
TranslateChunkChars == 512
HighConfidenceLen == 50
MediumConfidenceLen == 20

\* ------------------------------------------------------- sentinel returns
SummarizeEmptyMessage ==
  <<"P", "l", "e", "a", "s", "e", " ", "e", "n", "t", "e", "r", " ", "s",
  "o", "m", "e", " ", "t", "e", "x", "t", " ", "t", "o", " ", "s", "u", "m",
  "m", "a", "r", "i", "z", "e", ".">>
TranslateEmptyMessage ==
  <<"P", "l", "e", "a", "s", "e", " ", "e", "n", "t", "e", "r", " ", "s",
  "o", "m", "e", " ", "t", "e", "x", "t", " ", "t", "o", " ", "t", "r", "a",
  "n", "s", "l", "a", "t", "e", ".">>
SameLanguageMessage ==
  <<"S", "o", "u", "r", "c", "e", " ", "a", "n", "d", " ", "t", "a", "r",
  "g", "e", "t", " ", "l", "a", "n", "g", "u", "a", "g", "e", "s", " ", "m",
  "u", "s", "t", " ", "b", "e", " ", "d", "i", "f", "f", "e", "r", "e", "n",
  "t", ".">>
UnsupportedPairMessage ==
  <<"U", "n", "s", "u", "p", "p", "o", "r", "t", "e", "d", " ", "l", "a",
  "n", "g", "u", "a", "g", "e", " ", "p", "a", "i", "r", ".", " ", "U", "s",
  "e", " ", "'", "e", "n", "'", " ", "o", "r", " ", "'", "a", "r", "'",
  ".">>

\* ----------------------------------------------------------- request data
ReqMaxLen == 2       \* longest text enumerated exhaustively for a request

Word(n) == [k \in 1..n |-> "a"]

\* n words of w characters separated by single spaces
RECURSIVE Words(_, _)
Words(n, w) == IF n = 1 THEN Word(w) ELSE Word(w) \o <<SP>> \o Words(n - 1, w)

ShortTexts == UNION {[1..n -> Alphabet] : n \in 0..ReqMaxLen}

\* texts around the two chunk sizes and the two confidence thresholds
LongTexts ==
  { Word(MediumConfidenceLen + 1),
    Word(TranslateChunkChars),
    Word(TranslateChunkChars + 1),
    Word(SummarizeChunkChars),
    <<SP>> \o Word(SummarizeChunkChars + 1) \o <<NL>>,
    Words(2, TranslateChunkChars \div 2),
    Words(5, TranslateChunkChars \div 2) }

ReqTexts == ShortTexts \cup LongTexts

Languages == {"en", "ar", "fr"}
\* Literal["en", "ar"] of TranslateRequest
RequestLanguages == {"en", "ar"}

\* (min_length, max_length) of a summarize request
LengthBounds == {<<30, 250>>, <<10, 60>>}

\* texts a pipeline may produce for one chunk
Outputs == {<<"x">>, <<"y", ".">>}

\* what langdetect.detect does with a non-empty text
DetectOutcomes == {"en", "ar", "sw", "LangDetectException", "RuntimeError"}
DetectedCodes == {"en", "ar", "sw"}

\* -------------------------------------------------------------- the state
VARIABLES
  pc,               \* position of the request being served
  caller,           \* "http" (a handler of main.py) or "direct" (a call of the nlp function)
  req,              \* the request (or the arguments of the direct call)
  text,             \* the local variable text of the function running
  max_chars,        \* the max_chars argument of split_text_into_chunks
  chunks,           \* the local variable chunks
  idx,              \* position of the for loop over chunks
  results,          \* summary_chunks / translated_chunks
  pipeline_to_use,  \* the translator selected by translate_text
  calls,            \* every pipeline (or detector) invocation so far, in order,
                    \* with its outcome ("running", "returned", "raised") and output
  ret,              \* outcome of the nlp function: a returned text or a raised exception
  response          \* the HTTP response

vars == <<pc, caller, req, text, max_chars, chunks, idx, results,
          pipeline_to_use, calls, ret, response>>

NoReq == [endpoint |-> "none", text |-> <<>>]
NoRet == [kind |-> "none"]
NoResponse == [status |-> 0]

Returned(t) == [kind |-> "return", text |-> t]
Raised(e) == [kind |-> "raise", exc |-> e]

Init ==
  /\ pc = "idle"
  /\ caller = "none"
  /\ req = NoReq
  /\ text = <<>>
  /\ max_chars = 0
  /\ chunks = <<>>
  /\ idx = 0
  /\ results = <<>>
  /\ pipeline_to_use = "none"
  /\ calls = <<>>
  /\ ret = NoRet
  /\ response = NoResponse

\* ------------------------------------------------------------- /summarize
\* POST /summarize: the handler calls summarize_text(req.text, ...)
PostSummarize ==
  /\ pc = "idle"
  /\ \E t \in ReqTexts, lb \in LengthBounds, b \in BOOLEAN :
       req' = [endpoint |-> "summarize", text |-> t, min_length |-> lb[1],
               max_length |-> lb[2], bullet_points |-> b]
  /\ caller' = "http"
  /\ pc' = "summarize_text"
  /\ UNCHANGED <<text, max_chars, chunks, idx, results, pipeline_to_use,
                 calls, ret, response>>

\* summarize_text up to the for loop
SummarizeTextBegin ==
  /\ pc = "summarize_text"
  /\ LET t == strip(req.text)
     IN /\ text' = t
        /\ IF t = <<>>
           THEN /\ ret' = Returned(SummarizeEmptyMessage)
                /\ pc' = "returned"
                /\ UNCHANGED <<max_chars, chunks, idx, results>>
           ELSE /\ max_chars' = SummarizeChunkChars
                /\ chunks' = split_text_into_chunks(t, SummarizeChunkChars)
                /\ results' = <<>>
                /\ idx' = 1
                /\ ret' = ret
                /\ pc' = "summarize_loop"
  /\ UNCHANGED <<caller, req, pipeline_to_use, calls, response>>

\* the summarizer is invoked on the next chunk
SummarizerInvoke ==
  /\ pc = "summarize_loop"
  /\ idx <= Len(chunks)
  /\ calls' = Append(calls, [pipeline |-> "summarizer", chunk |-> chunks[idx],
                             min_length |-> req.min_length,
                             max_length |-> req.max_length,
                             outcome |-> "running", output |-> <<>>])
  /\ pc' = "summarizer_running"
  /\ UNCHANGED <<caller, req, text, max_chars, chunks, idx, results,
                 pipeline_to_use, ret, response>>

\* the summarizer returns and the result is put in front of the list
SummarizerResultPrepends ==
  /\ pc = "summarizer_running"
  /\ \E out \in Outputs :
       /\ calls' = [calls EXCEPT ![Len(calls)].outcome = "returned",
                                 ![Len(calls)].output = out]
       /\ results' = <<out>> \o results
  /\ idx' = idx + 1
  /\ pc' = "summarize_loop"
  /\ UNCHANGED <<caller, req, text, max_chars, chunks, pipeline_to_use,
                 ret, response>>

\* the summarizer returns; result[0]["summary_text"] is appended
SummarizerResult ==
  /\ pc = "summarizer_running"
  /\ \E out \in Outputs :
       /\ calls' = [calls EXCEPT ![Len(calls)].outcome = "returned",
                                 ![Len(calls)].output = out]
       /\ results' = Append(results, out)
  /\ idx' = idx + 1
  /\ pc' = "summarize_loop"
  /\ UNCHANGED <<caller, req, text, max_chars, chunks, pipeline_to_use,
                 ret, response>>

\* the summarizer raises and the loop goes on with the next chunk
SummarizerErrorSwallowed ==
  /\ pc = "summarizer_running"
  /\ calls' = [calls EXCEPT ![Len(calls)].outcome = "raised"]
  /\ idx' = idx + 1
  /\ pc' = "summarize_loop"
  /\ UNCHANGED <<caller, req, text, max_chars, chunks, results,
                 pipeline_to_use, ret, response>>

\* the summarizer raises; the exception leaves summarize_text
SummarizerError ==
  /\ pc = "summarizer_running"
  /\ calls' = [calls EXCEPT ![Len(calls)].outcome = "raised"]
  /\ ret' = Raised("PipelineError")
  /\ pc' = "returned"
  /\ UNCHANGED <<caller, req, text, max_chars, chunks, idx, results,
                 pipeline_to_use, response>>

\* the loop is exhausted: return " ".join(summary_chunks)
SummarizeTextEnd ==
  /\ pc = "summarize_loop"
  /\ idx > Len(chunks)
  /\ ret' = Returned(JoinSpace(results))
  /\ pc' = "returned"
  /\ UNCHANGED <<caller, req, text, max_chars, chunks, idx, results,
                 pipeline_to_use, calls, response>>

\* re.split(r'(?<=[.!?])\s+', s): s is already stripped
SentenceEnd == {".", "!", "?"}

RECURSIVE SentenceSplit(_)
SentenceSplit(s) ==
  LET cuts == {k \in 2..Len(s) : s[k] \in StripWhitespace /\ s[k - 1] \in SentenceEnd}
  IN IF cuts = {} THEN <<s>>
     ELSE LET c == CHOOSE k \in cuts : \A m \in cuts : k <= m
              e == CHOOSE k \in c..(Len(s) + 1) :
                     /\ At(s, k) \notin StripWhitespace
                     /\ \A m \in c..(k - 1) : s[m] \in StripWhitespace
          IN <<SubSeq(s, 1, c - 1)>> \o SentenceSplit(SubSeq(s, e, Len(s)))

RECURSIVE StripNonEmpty(_)
\* [s.strip() for s in sentences if s.strip()]
StripNonEmpty(ss) ==
  IF ss = <<>> THEN <<>>
  ELSE IF strip(Head(ss)) = <<>> THEN StripNonEmpty(Tail(ss))
  ELSE <<strip(Head(ss))>> \o StripNonEmpty(Tail(ss))

BulletPoints(summary) == StripNonEmpty(SentenceSplit(strip(summary)))

\* the rest of the handler: the response, or HTTP 500 for any exception
SummarizeRespond ==
  /\ pc = "returned"
  /\ caller = "http"
  /\ req.endpoint = "summarize"
  /\ response' =
       IF ret.kind = "raise"
       THEN [status |-> 500, detail |-> ret.exc]
       ELSE [status |-> 200, summary |-> ret.text,
             has_bullet_points |-> req.bullet_points,
             bullet_points |-> IF req.bullet_points
                               THEN BulletPoints(ret.text) ELSE <<>>]
  /\ pc' = "done"
  /\ UNCHANGED <<caller, req, text, max_chars, chunks, idx, results,
                 pipeline_to_use, calls, ret>>

\* ------------------------------------------------------------- /translate
\* POST /translate: pydantic rejects a language outside Literal["en", "ar"]
\* (HTTP 422); otherwise the handler calls translate_text
PostTranslate ==
  /\ pc = "idle"
  /\ \E t \in ReqTexts, src \in Languages, tgt \in Languages :
       /\ req' = [endpoint |-> "translate", text |-> t,
                  source_language |-> src, target_language |-> tgt]
       /\ IF src \in RequestLanguages /\ tgt \in RequestLanguages
          THEN pc' = "translate_text" /\ response' = response
          ELSE pc' = "done" /\ response' = [status |-> 422]
  /\ caller' = "http"
  /\ UNCHANGED <<text, max_chars, chunks, idx, results, pipeline_to_use,
                 calls, ret>>

\* translate_text called as a function, with any language codes
CallTranslateText ==
  /\ pc = "idle"
  /\ \E t \in ReqTexts, src \in Languages, tgt \in Languages :
       req' = [endpoint |-> "translate", text |-> t,
               source_language |-> src, target_language |-> tgt]
  /\ caller' = "direct"
  /\ pc' = "translate_text"
  /\ UNCHANGED <<text, max_chars, chunks, idx, results, pipeline_to_use,
                 calls, ret, response>>

\* the two translators exchanged
SelectTranslatorSwapped(source_language, target_language) ==
  IF source_language = "en" /\ target_language = "ar" THEN "translator_ar_en"
  ELSE IF source_language = "ar" /\ target_language = "en" THEN "translator_en_ar"
  ELSE "unsupported"

\* the if / elif / else of translate_text that picks the translator
SelectTranslator(source_language, target_language) ==
  IF source_language = "en" /\ target_language = "ar" THEN "translator_en_ar"
  ELSE IF source_language = "ar" /\ target_language = "en" THEN "translator_ar_en"
  ELSE "unsupported"

\* translate_text sharing the chunk size of summarize_text
TranslateChunksSharedLimit(t) == split_text_into_chunks(t, SummarizeChunkChars)

\* chunks = split_text_into_chunks(text, max_chars=512)
TranslateChunks(t) == split_text_into_chunks(t, TranslateChunkChars)

\* translate_text up to the for loop
TranslateTextBegin ==
  /\ pc = "translate_text"
  /\ LET t == strip(req.text)
         sel == SelectTranslator(req.source_language, req.target_language)
         early == IF t = <<>> THEN TranslateEmptyMessage
                  ELSE IF req.source_language = req.target_language
                  THEN SameLanguageMessage
                  ELSE IF sel = "unsupported" THEN UnsupportedPairMessage
                  ELSE <<>>
     IN /\ text' = t
        /\ IF early # <<>>
           THEN /\ ret' = Returned(early)
                /\ pc' = "returned"
                /\ UNCHANGED <<max_chars, chunks, idx, results, pipeline_to_use>>
           ELSE /\ pipeline_to_use' = sel
                /\ max_chars' = TranslateChunkChars
                /\ chunks' = TranslateChunks(t)
                /\ results' = <<>>
                /\ idx' = 1
                /\ ret' = ret
                /\ pc' = "translate_loop"
  /\ UNCHANGED <<caller, req, calls, response>>

\* pipeline_to_use is invoked on the next chunk
TranslatorInvoke ==
  /\ pc = "translate_loop"
  /\ idx <= Len(chunks)
  /\ calls' = Append(calls, [pipeline |-> pipeline_to_use, chunk |-> chunks[idx],
                             outcome |-> "running", output |-> <<>>])
  /\ pc' = "translator_running"
  /\ UNCHANGED <<caller, req, text, max_chars, chunks, idx, results,
                 pipeline_to_use, ret, response>>

\* the translator returns; result[0]["translation_text"] is appended
TranslatorResult ==
  /\ pc = "translator_running"
  /\ \E out \in Outputs :
       /\ calls' = [calls EXCEPT ![Len(calls)].outcome = "returned",
                                 ![Len(calls)].output = out]
       /\ results' = Append(results, out)
  /\ idx' = idx + 1
  /\ pc' = "translate_loop"
  /\ UNCHANGED <<caller, req, text, max_chars, chunks, pipeline_to_use,
                 ret, response>>

\* the translator raises; the exception leaves translate_text
TranslatorError ==
  /\ pc = "translator_running"
  /\ calls' = [calls EXCEPT ![Len(calls)].outcome = "raised"]
  /\ ret' = Raised("PipelineError")
  /\ pc' = "returned"
  /\ UNCHANGED <<caller, req, text, max_chars, chunks, idx, results,
                 pipeline_to_use, response>>

\* the loop is exhausted: return " ".join(translated_chunks)
TranslateTextEnd ==
  /\ pc = "translate_loop"
  /\ idx > Len(chunks)
  /\ ret' = Returned(JoinSpace(results))
  /\ pc' = "returned"
  /\ UNCHANGED <<caller, req, text, max_chars, chunks, idx, results,
                 pipeline_to_use, calls, response>>

\* the rest of the handler: the response, or HTTP 500 for any exception
TranslateRespond ==
  /\ pc = "returned"
  /\ caller = "http"
  /\ req.endpoint = "translate"
  /\ response' =
       IF ret.kind = "raise"
       THEN [status |-> 500, detail |-> ret.exc]
       ELSE [status |-> 200, translation |-> ret.text]
  /\ pc' = "done"
  /\ UNCHANGED <<caller, req, text, max_chars, chunks, idx, results,
                 pipeline_to_use, calls, ret>>

\* the direct caller receives the return value or the exception
DirectReturn ==
  /\ pc = "returned"
  /\ caller = "direct"
  /\ pc' = "done"
  /\ UNCHANGED <<caller, req, text, max_chars, chunks, idx, results,
                 pipeline_to_use, calls, ret, response>>

\* ------------------------------------------------------- /detect-language
\* lang_map.get(detected, detected.upper())
LanguageName(detected) ==
  IF detected = "en" THEN "English"
  ELSE IF detected = "ar" THEN "Arabic"
  ELSE IF detected = "sw" THEN "SW"
  ELSE detected

Confidence(t) ==
  IF Len(t) > HighConfidenceLen THEN "high"
  ELSE IF Len(t) > MediumConfidenceLen THEN "medium"
  ELSE "low"

\* the except clauses of detect_language, tried in order; every exception
\* class raised in the try block, HTTPException included, derives from Exception
DetectExcept(exc) ==
  IF exc.type = "LangDetectException"
  THEN [status |-> 400, detail |-> "Could not detect language", cause |-> exc]
  ELSE [status |-> 500, detail |-> "str(e)", cause |-> exc]

\* POST /detect-language, the whole handler
PostDetectLanguage ==
  /\ pc = "idle"
  /\ \E t \in ReqTexts, outcome \in DetectOutcomes :
       LET stripped == strip(t)
       IN /\ req' = [endpoint |-> "detect-language", text |-> t]
          /\ text' = stripped
          /\ IF stripped = <<>>
             THEN /\ calls' = calls
                  /\ response' = DetectExcept([type |-> "HTTPException",
                                               status_code |-> 400,
                                               detail |-> "Text cannot be empty"])
             ELSE /\ calls' = Append(calls,
                                     [pipeline |-> "langdetect", chunk |-> stripped,
                                      outcome |-> IF outcome \in DetectedCodes
                                                  THEN "returned" ELSE "raised",
                                      output |-> <<>>])
                  /\ response' =
                       IF outcome \in DetectedCodes
                       THEN [status |-> 200, language |-> LanguageName(outcome),
                             confidence |-> Confidence(stripped)]
                       ELSE DetectExcept([type |-> outcome])
  /\ caller' = "http"
  /\ pc' = "done"
  /\ UNCHANGED <<max_chars, chunks, idx, results, pipeline_to_use, ret>>

Next ==
  \/ PostSummarize
  \/ SummarizeTextBegin
  \/ SummarizerInvoke
  \/ SummarizerResult
  \/ SummarizerError
  \/ SummarizeTextEnd
  \/ SummarizeRespond
  \/ PostTranslate
  \/ CallTranslateText
  \/ TranslateTextBegin
  \/ TranslatorInvoke
  \/ TranslatorResult
  \/ TranslatorError
  \/ TranslateTextEnd
  \/ TranslateRespond
  \/ DirectReturn
  \/ PostDetectLanguage

Spec == Init /\ [][Next]_vars

\* ------------------------------------------- split_text_into_chunks alone
Texts == UNION {[1..n -> Alphabet] : n \in 0..MaxLen}

\* any text and any max_chars > 0 within the bounds
ChunkInit ==
  /\ pc = "split_ready"
  /\ text \in Texts
  /\ max_chars \in 1..MaxWidth
  /\ caller = "direct"
  /\ req = NoReq
  /\ chunks = <<>>
  /\ idx = 0
  /\ results = <<>>
  /\ pipeline_to_use = "none"
  /\ calls = <<>>
  /\ ret = NoRet
  /\ response = NoResponse

\* chunks = split_text_into_chunks(text, max_chars)
SplitTextIntoChunks ==
  /\ pc = "split_ready"
  /\ chunks' = split_text_into_chunks(text, max_chars)
  /\ pc' = "split_done"
  /\ UNCHANGED <<caller, req, text, max_chars, idx, results, pipeline_to_use,
                 calls, ret, response>>

ChunkNext == SplitTextIntoChunks

ChunkSpec == ChunkInit /\ [][ChunkNext]_vars

\* =================================================================== claims
\* T.split(): the maximal runs of non-whitespace characters, in order
RECURSIVE WordsOf(_)
WordsOf(s) ==
  LET t == strip(s)
  IN IF t = <<>> THEN <<>>
     ELSE LET e == CHOOSE k \in 1..(Len(t) + 1) :
                     /\ At(t, k) \notin {"a", HY}
                     /\ \A m \in 1..(k - 1) : t[m] \in {"a", HY}
          IN <<SubSeq(t, 1, e - 1)>> \o WordsOf(SubSeq(t, e, Len(t)))

Range(f) == {f[k] : k \in DOMAIN f}
NotWhitespace(c) == c \notin WrapWhitespace
SplitDone == pc = "split_done"

\* C1 (as stated): every chunk is at most max_chars long unless it is one
\* whole word of the text, and a word longer than max_chars is never broken:
\* it is one of the chunks.
C1_LongWordKeptWhole ==
  (SplitDone /\ text # <<>>) =>
    /\ \A i \in 1..Len(chunks) :
         Len(chunks[i]) <= max_chars \/ chunks[i] \in Range(WordsOf(text))
    /\ \A w \in Range(WordsOf(text)) :
         Len(w) > max_chars => w \in Range(chunks)

\* C1 (amended): every chunk of split_text_into_chunks(T, M) is at most M
\* characters long; a word longer than M is broken across chunks.
C1_ChunksWithinMax ==
  (SplitDone /\ text # <<>>) =>
    \A i \in 1..Len(chunks) : Len(chunks[i]) <= max_chars

\* a text with a word longer than max_chars has been split
C1_Witness ==
  /\ SplitDone
  /\ \E w \in Range(WordsOf(text)) : Len(w) > max_chars
  /\ Len(chunks) >= 2

\* C2 (as stated): the chunks joined with single spaces are the words of the
\* text joined with single spaces.
C2_JoinIsNormalizedText ==
  (SplitDone /\ text # <<>>) => JoinSpace(chunks) = JoinSpace(WordsOf(text))

\* C2 (amended): the chunks, concatenated in order and with their spaces
\* removed, are the text with its whitespace removed: no non-whitespace
\* character is dropped, duplicated or reordered.
C2_CharactersPreserved ==
  (SplitDone /\ text # <<>>) =>
    SelectSeq(Concat(chunks), NotWhitespace) = SelectSeq(text, NotWhitespace)

\* a text with whitespace in it has been split into several chunks
C2_Witness ==
  /\ SplitDone
  /\ Len(chunks) >= 2
  /\ \E k \in 1..Len(text) : text[k] \in WrapWhitespace
  /\ \E k \in 1..Len(text) : text[k] \notin WrapWhitespace

\* C7 (as stated): a non-empty text yields at least one chunk.
C7_NonEmptyTextHasChunk ==
  (SplitDone /\ text # <<>>) => Len(chunks) >= 1

\* C7 (amended): a text with at least one non-whitespace character yields at
\* least one chunk.
C7_NonBlankTextHasChunk ==
  (SplitDone /\ \E k \in 1..Len(text) : text[k] \notin WrapWhitespace) =>
    Len(chunks) >= 1

\* a text of whitespace around one word has been split into its one chunk
C7_Witness ==
  /\ SplitDone
  /\ \E k \in 1..Len(text) : text[k] \in WrapWhitespace
  /\ \E k \in 1..Len(text) : text[k] \notin WrapWhitespace
  /\ Len(chunks) = 1

\* C8: for a text as summarize_text and translate_text pass it (stripped),
\* no smaller max_chars gives fewer chunks than max_chars does.
C8_CountMonotone ==
  (SplitDone /\ text # <<>> /\ strip(text) = text) =>
    \A m \in 1..max_chars :
      Len(split_text_into_chunks(text, m)) >= Len(chunks)

\* ------------------------------------------------ claims on the operations
Blank(t) == \A k \in 1..Len(t) : t[k] \in StripWhitespace
ServingNlp == req.endpoint \in {"summarize", "translate"}
Finished == pc \in {"returned", "done"}
\* the nlp function has returned or raised
Outcome == Finished /\ ret.kind # "none"
SupportedPair ==
  \/ req.source_language = "en" /\ req.target_language = "ar"
  \/ req.source_language = "ar" /\ req.target_language = "en"
ValidInput ==
  /\ ~Blank(req.text)
  /\ req.endpoint = "translate" => SupportedPair
ResponseHasText == "summary" \in DOMAIN response \/ "translation" \in DOMAIN response
ResponseText ==
  IF req.endpoint = "summarize" THEN response.summary ELSE response.translation

\* C3: once the pipeline has raised on a chunk, that call is the last one, the
\* function has raised instead of returning a text, and the handler answers
\* with status 500 and no text.
C3_PipelineFailureFailsAll ==
  ServingNlp =>
    \A k \in 1..Len(calls) :
      calls[k].outcome = "raised" =>
        /\ k = Len(calls)
        /\ Finished
        /\ ret.kind = "raise"
        /\ (pc = "done" /\ caller = "http") =>
             response.status = 500 /\ ~ResponseHasText

\* a handler has answered after the pipeline raised on a chunk that is
\* neither the first nor the last one
C3_Witness ==
  /\ ServingNlp
  /\ pc = "done"
  /\ caller = "http"
  /\ Len(results) >= 1
  /\ Len(calls) < Len(chunks)
  /\ calls[Len(calls)].outcome = "raised"
  /\ response.status = 500

\* C4: on valid non-empty input with every pipeline call successful, the
\* returned text is the outputs of the calls joined with single spaces in the
\* order of the calls, and call i was made on chunk i.
C4_ResultIsOrderedJoin ==
  (ServingNlp /\ Outcome /\ ret.kind = "return" /\ ValidInput) =>
    /\ Len(calls) = Len(chunks)
    /\ \A i \in 1..Len(calls) :
         calls[i].chunk = chunks[i] /\ calls[i].outcome = "returned"
    /\ ret.text = JoinSpace([i \in 1..Len(calls) |-> calls[i].output])

\* a text of several chunks with different outputs has been returned
C4_Witness ==
  /\ ServingNlp
  /\ Outcome
  /\ ret.kind = "return"
  /\ Len(calls) >= 2
  /\ calls[1].output # calls[2].output

\* every pipeline call of translate_text is a call of the translator of the
\* requested direction, and equal languages end in a sentinel without a call
C5_RoutingAndSameLanguage ==
  /\ \A k \in 1..Len(calls) :
       \/ /\ calls[k].pipeline = "translator_en_ar"
          /\ req.source_language = "en" /\ req.target_language = "ar"
       \/ /\ calls[k].pipeline = "translator_ar_en"
          /\ req.source_language = "ar" /\ req.target_language = "en"
  /\ (Outcome /\ req.source_language = req.target_language) =>
       /\ ret.kind = "return"
       /\ ret.text \in {SameLanguageMessage, TranslateEmptyMessage}
       /\ calls = <<>>

\* C5 (as stated): routing as above, and for every text a pair of different
\* languages outside the two directions returns the unsupported-pair message
\* without a pipeline call.
C5_UnsupportedForEveryText ==
  req.endpoint = "translate" =>
    /\ C5_RoutingAndSameLanguage
    /\ (Outcome /\ req.source_language # req.target_language /\ ~SupportedPair) =>
         ret = Returned(UnsupportedPairMessage) /\ calls = <<>>

\* C5 (amended): routing as above; a pair of different languages outside the
\* two directions returns the unsupported-pair message when the text is not
\* empty after trimming and the empty-text message when it is, in both cases
\* without a pipeline call.
C5_UnsupportedForNonEmptyText ==
  req.endpoint = "translate" =>
    /\ C5_RoutingAndSameLanguage
    /\ (Outcome /\ req.source_language # req.target_language /\ ~SupportedPair) =>
         /\ calls = <<>>
         /\ ret = Returned(IF Blank(req.text) THEN TranslateEmptyMessage
                           ELSE UnsupportedPairMessage)

\* translate_text has returned the unsupported-pair message for (en, fr)
C5_Witness ==
  /\ req.endpoint = "translate"
  /\ Outcome
  /\ req.source_language = "en"
  /\ req.target_language = "fr"
  /\ ~Blank(req.text)
  /\ ret = Returned(UnsupportedPairMessage)
  /\ calls = <<>>

\* C6: for an empty or whitespace-only text no pipeline is called, the
\* function returns the sentinel of its operation, and the handler answers
\* 200 with that sentinel.
C6_EmptyTextSentinel ==
  (ServingNlp /\ Blank(req.text)) =>
    /\ calls = <<>>
    /\ Outcome =>
         ret = Returned(IF req.endpoint = "summarize" THEN SummarizeEmptyMessage
                        ELSE TranslateEmptyMessage)
    /\ (Outcome /\ pc = "done" /\ caller = "http") =>
         /\ response.status = 200
         /\ ResponseText = (IF req.endpoint = "summarize" THEN SummarizeEmptyMessage
                            ELSE TranslateEmptyMessage)

\* a whitespace-only text has been summarized
C6_Witness ==
  /\ req.endpoint = "summarize"
  /\ pc = "done"
  /\ req.text # <<>>
  /\ Blank(req.text)
  /\ response.status = 200
  /\ response.summary = SummarizeEmptyMessage

\* C9: the chunks are the text cut at 1024 (summarize) or 512 (translate)
\* characters; call k is made on chunk k with the selected pipeline, and only
\* after every earlier call has returned; a successful run makes exactly one
\* call per chunk, hence at least two for a text longer than the limit and
\* exactly one for a text of one chunk.
C9_OneSequentialCallPerChunk ==
  (ServingNlp /\ max_chars # 0) =>
    LET limit == IF req.endpoint = "summarize" THEN SummarizeChunkChars
                 ELSE TranslateChunkChars
        pipe == IF req.endpoint = "summarize" THEN "summarizer" ELSE pipeline_to_use
    IN /\ max_chars = limit
       /\ chunks = split_text_into_chunks(text, limit)
       /\ Len(calls) <= Len(chunks)
       /\ \A k \in 1..Len(calls) :
            /\ calls[k].chunk = chunks[k]
            /\ calls[k].pipeline = pipe
            /\ k < Len(calls) => calls[k].outcome = "returned"
       /\ Len(results) = Cardinality({k \in 1..Len(calls) : calls[k].outcome = "returned"})
       /\ (Outcome /\ ret.kind = "return") =>
            /\ Len(calls) = Len(chunks)
            /\ Len(text) > limit => Len(calls) >= 2
            /\ Len(chunks) = 1 => Len(calls) = 1

\* a text between the two limits has been translated in several calls
C9_Witness ==
  /\ req.endpoint = "translate"
  /\ Outcome
  /\ ret.kind = "return"
  /\ Len(text) > TranslateChunkChars
  /\ Len(text) <= SummarizeChunkChars
  /\ Len(calls) >= 2

\* C10: /detect-language answers an empty or whitespace-only text with status
\* 400 and detail 'Text cannot be empty', without calling the detector.
C10_EmptyTextIsClientError ==
  (req.endpoint = "detect-language" /\ pc = "done" /\ Blank(req.text)) =>
    /\ response.status = 400
    /\ response.detail = "Text cannot be empty"
    /\ calls = <<>>

====
